---- MODULE Spec2Model ----
(***************************************************************************)
(* A model of package http of thoohv5/xhttp: the parameter record held by  *)
(* an entity, the Option mutators, the beforeRequest hook chain and the    *)
(* request pipeline of entity.request, with the four facade methods.       *)
(*                                                                         *)
(* Strings of the program (URLs, query strings, JSON bodies) are strings   *)
(* of the model.  Errors are records: text is the rendered message, piece  *)
(* by piece, and wraps is the chain errors.Unwrap walks.                   *)
(***************************************************************************)
EXTENDS Integers, Sequences, FiniteSets, TLC

\* Bound: the number of facade calls made on the client in one behaviour.
MaxCalls == 2

\* The goroutines that may call the client.
Procs == {1, 2}

(***************************************************************************)
(* constant.go                                                             *)
(***************************************************************************)
MethodPost == "POST"

MethodGet == "GET"

MethodPut == "PUT"

MethodDelete == "DELETE"

\* 3 * time.Second, a time.Duration: an int64 count of nanoseconds, written
\* as its eight bytes, least significant first (3000000000 = 0xB2D05E00).
DefaultTimeOut == <<0, 94, 208, 178, 0, 0, 0, 0>>

\* time.Second: 1000000000 = 0x3B9ACA00 nanoseconds.
Second == <<0, 202, 154, 59, 0, 0, 0, 0>>

(***************************************************************************)
(* time.Duration: int64 in two's complement                                *)
(***************************************************************************)
\* The bytes of an int64, and the values of one byte.
Limbs == 8

Byte == 256

\* The int64 of a number below 256.
Small(n) == [i \in 1..Limbs |-> IF i = 1 THEN n ELSE 0]

Zero64 == Small(0)

\* The sign bit of an int64.
Negative(x) == x[Limbs] >= Byte \div 2

\* The sum of a[i] * b[k + 1 - i] over i = from..k: column k of the
\* long multiplication.
RECURSIVE Column(_, _, _, _)
Column(a, b, k, from) ==
    IF from > k \/ from > Len(a) THEN 0
    ELSE (IF k + 1 - from <= Len(b) THEN a[from] * b[k + 1 - from] ELSE 0)
         + Column(a, b, k, from + 1)

\* The bytes k..n of the product a * b, with the carry of the bytes below.
RECURSIVE MulFrom(_, _, _, _, _)
MulFrom(a, b, k, n, carry) ==
    IF k > n THEN <<>>
    ELSE LET s == carry + Column(a, b, k, 1)
         IN  <<s % Byte>> \o MulFrom(a, b, k + 1, n, s \div Byte)

\* a * b of two int64: the low 64 bits of the product, as the machine
\* multiplication leaves them.
Mul64(a, b) == MulFrom(a, b, 1, Limbs, 0)

(***************************************************************************)
(* Values of the input domain                                              *)
(***************************************************************************)
\* URLs passed to the facade.  UrlB carries a query of its own; UrlBad is
\* rejected by net/url's Parse ("missing protocol scheme").
UrlA == "http://x/a"

UrlB == "http://x/b?z=9"

UrlBad == ":bad"

\* Keys of parameter maps, in the byte order both url.Values.Encode and
\* json.Marshal emit them.
ParamKeys == <<"n", "q">>

ParamKeySet == {ParamKeys[i] : i \in 1..Len(ParamKeys)}

\* A key that a map does not hold.
Absent == "-"

\* Parameter values (interface{}): "i1" is the int 1, "sab" the string "a b".
ParamValues == {"i1", "sab"}

HeaderKeySet == {"Connection", "Content-Type", "X-A"}

\* A Go map: nil tells the nil map from an empty one; m gives each key's
\* value, or Absent.
EmptyParams == [k \in ParamKeySet |-> Absent]

NilMap == [nil |-> TRUE, m |-> EmptyParams]

MapOf(f) == [nil |-> FALSE, m |-> f]

P0 == MapOf(EmptyParams)

PN == MapOf([EmptyParams EXCEPT !["n"] = "i1"])

PQ == MapOf([EmptyParams EXCEPT !["q"] = "sab"])

PNQ == MapOf([EmptyParams EXCEPT !["n"] = "i1", !["q"] = "sab"])

EmptyHeaders == [k \in HeaderKeySet |-> Absent]

HX == [nil |-> FALSE, m |-> [EmptyHeaders EXCEPT !["X-A"] = "1"]]

\* The header map New builds.
DefaultHeader == [nil |-> FALSE,
                  m   |-> [EmptyHeaders EXCEPT !["Connection"] = "close",
                                               !["Content-Type"] = "application/json"]]

(***************************************************************************)
(* Errors                                                                  *)
(***************************************************************************)
NoErr == [text |-> <<>>, wraps |-> <<>>]

\* errors.New / an error of a collaborator.
Leaf(name) == [text |-> <<name>>, wraps |-> <<name>>]

\* fmt.Errorf(prefix ... %w, e).
Errorf(prefix, e) == [text |-> <<prefix>> \o e.text, wraps |-> <<prefix>> \o e.wraps]

IsErr(e) == e # NoErr

(***************************************************************************)
(* Encoders of the collaborating libraries                                 *)
(***************************************************************************)
\* transform.Strval: the value as text.
Strval(v) == CASE v = "i1" -> "1" [] v = "sab" -> "a b" [] OTHER -> ""

\* url.QueryEscape, as url.Values.Encode applies it to keys and values.
QueryEscape(s) == CASE s = "a b" -> "a+b" [] OTHER -> s

\* json.Marshal of one value.
MarshalValue(v) == CASE v = "i1" -> "1" [] v = "sab" -> "\"a b\"" [] OTHER -> "null"

RECURSIVE Join(_, _)
Join(pieces, sep) ==
    IF Len(pieces) = 0 THEN ""
    ELSE IF Len(pieces) = 1 THEN pieces[1]
    ELSE pieces[1] \o sep \o Join(Tail(pieces), sep)

\* The keys m holds, in sorted order.
SortedKeys(m) == SelectSeq(ParamKeys, LAMBDA k : m[k] # Absent)

\* params := neturl.Values{}; params.Add(key, transform.Strval(value)) for
\* every entry; params.Encode(): "k=v" pairs sorted by key, joined by "&".
QueryPiece(m, k) == QueryEscape(k) \o "=" \o QueryEscape(Strval(m[k]))

Encode(m) ==
    LET ks == SortedKeys(m)
    IN  Join([i \in 1..Len(ks) |-> QueryPiece(m, ks[i])], "&")

\* json.Marshal of a map[string]interface{}: keys sorted.
MarshalPiece(m, k) == "\"" \o k \o "\":" \o MarshalValue(m[k])

Marshal(m) ==
    LET ks == SortedKeys(m)
    IN  "{" \o Join([i \in 1..Len(ks) |-> MarshalPiece(m, ks[i])], ",") \o "}"

\* neturl.Parse of a URL of the input domain.
ParseOk(u) == u # UrlBad

Parse(u) ==
    CASE u = UrlB -> [path |-> "http://x/b", rawQuery |-> "z=9"]
      [] OTHER    -> [path |-> u, rawQuery |-> ""]

\* (*URL).String() after RawQuery was set.
URLString(u) == IF u.rawQuery = "" THEN u.path ELSE u.path \o "?" \o u.rawQuery

(***************************************************************************)
(* option.go: the parameter record and the options                         *)
(***************************************************************************)
\* An io.Reader held in parameter.body: nil, or a *bytes.Buffer with the
\* bytes not yet read from it.
NilBody == [nil |-> TRUE, data |-> ""]

Buffer(data) == [nil |-> FALSE, data |-> data]

\* A record built without the two make(map...) of New.
NewParameterNilMaps ==
    [url           |-> "",
     method        |-> MethodGet,
     timeout       |-> DefaultTimeOut,
     header        |-> [nil |-> TRUE, m |-> EmptyHeaders],
     param         |-> NilMap,
     beforeRequest |-> <<>>,
     body          |-> NilBody,
     tLSClientConfig |-> "verify",
     log           |-> "nil",
     deleteUriFlag |-> TRUE,
     response      |-> "nil"]

\* The parameter that New allocates.
NewParameter ==
    [url           |-> "",
     method        |-> MethodGet,
     timeout       |-> DefaultTimeOut,
     header        |-> DefaultHeader,
     param         |-> P0,
     beforeRequest |-> <<>>,
     body          |-> NilBody,
     tLSClientConfig |-> "verify",
     log           |-> "nil",
     deleteUriFlag |-> TRUE,
     response      |-> "nil"]

\* A hook: a closure over the facade's url argument (get, delete), the
\* body hook of Post and Put, or a caller's hook that succeeds or fails.
Hook(k, url) == [k |-> k, url |-> url]

NoHook == Hook("none", "")

\* An option: its constructor and the value it closes over.
Opt(k, s, m, b, h) == [k |-> k, s |-> s, m |-> m, b |-> b, h |-> h, d |-> Zero64]

WithUrl(url) == Opt("url", url, NilMap, FALSE, NoHook)

WithMethod(method) == Opt("method", method, NilMap, FALSE, NoHook)

WithTimeout(timeout) == [Opt("timeout", "", NilMap, FALSE, NoHook) EXCEPT !.d = timeout]

WithParam(params) == Opt("param", "", params, FALSE, NoHook)

WithHeader(headers) == Opt("header", "", headers, FALSE, NoHook)

WithBeforeRequest(preDeal) == Opt("beforeRequest", "", NilMap, FALSE, preDeal)

WithTLSClientConfig(cfg) == Opt("tls", cfg, NilMap, FALSE, NoHook)

WithResponse(response) == Opt("response", response, NilMap, FALSE, NoHook)

WithLogger(log) == Opt("log", log, NilMap, FALSE, NoHook)

WithDeleteURIFlag(flag) == Opt("deleteUriFlag", "", NilMap, flag, NoHook)

\* A merge that replaces the map by the one given.
MergeMapReplaces(dst, src) == [nil |-> dst.nil, m |-> src.m]

\* for key, val := range src { dst[key] = val }.  Ranging over a nil src
\* does nothing.
MergeMap(dst, src) ==
    [nil |-> dst.nil,
     m   |-> [k \in DOMAIN dst.m |-> IF src.m[k] # Absent THEN src.m[k] ELSE dst.m[k]]]

\* o.apply(r)
Apply(o, r) ==
    CASE o.k = "url"           -> [r EXCEPT !.url = o.s]
      [] o.k = "method"        -> [r EXCEPT !.method = o.s]
      [] o.k = "timeout"       -> [r EXCEPT !.timeout = Mul64(o.d, Second)]
      [] o.k = "param"         -> [r EXCEPT !.param = MergeMap(r.param, o.m)]
      [] o.k = "header"        -> [r EXCEPT !.header = MergeMap(r.header, o.m)]
      [] o.k = "beforeRequest" -> [r EXCEPT !.beforeRequest = Append(r.beforeRequest, o.h)]
      [] o.k = "tls"           -> [r EXCEPT !.tLSClientConfig = o.s]
      [] o.k = "response"      -> [r EXCEPT !.response = o.s]
      [] o.k = "log"           -> [r EXCEPT !.log = o.s]
      [] o.k = "deleteUriFlag" -> [r EXCEPT !.deleteUriFlag = o.b]
      [] OTHER                 -> r

(***************************************************************************)
(* http.go: the hooks the facade methods register                          *)
(***************************************************************************)
\* The outcome of one hook: its error and the record it leaves.
HookResult(e, r) == [err |-> e, r |-> r]

\* The query hook parsing the record's URL in place of its url argument.
QueryHookOfRecordUrl(url, r) ==
    IF ~ParseOk(r.url)
    THEN HookResult(Errorf("get json ma err", Leaf("parse")), r)
    ELSE HookResult(NoErr,
            [r EXCEPT !.url = URLString([Parse(r.url) EXCEPT !.rawQuery = Encode(r.param.m)])])

\* "组装url" of Get and Delete: the facade's url argument is parsed, its
\* RawQuery replaced by the encoding of r.param, and r.url rewritten.
QueryHook(url, r) ==
    IF ~ParseOk(url)
    THEN HookResult(Errorf("get json ma err", Leaf("parse")), r)
    ELSE HookResult(NoErr,
            [r EXCEPT !.url = URLString([Parse(url) EXCEPT !.rawQuery = Encode(r.param.m)])])

\* "组装param" of Post, Put and Delete: r.param, when not nil, is marshalled
\* into a new buffer that becomes the body.
BodyHook(r) ==
    IF r.param.nil
    THEN HookResult(NoErr, r)
    ELSE HookResult(NoErr, [r EXCEPT !.body = Buffer(Marshal(r.param.m))])

\* The hook of Delete: the body, then the URL when deleteUriFlag is set.
DeleteHook(url, r) ==
    IF r.param.nil
    THEN HookResult(NoErr, r)
    ELSE LET withBody == BodyHook(r).r
         IN  IF withBody.deleteUriFlag THEN QueryHook(url, withBody)
             ELSE HookResult(NoErr, withBody)

\* beforeRequest(r.parameter)
CallHook(h, r) ==
    CASE h.k = "get"      -> QueryHook(h.url, r)
      [] h.k = "post"     -> BodyHook(r)
      [] h.k = "put"      -> BodyHook(r)
      [] h.k = "delete"   -> DeleteHook(h.url, r)
      [] h.k = "userFail" -> HookResult(Leaf("user hook err"), r)
      [] OTHER            -> HookResult(NoErr, r)

(***************************************************************************)
(* http.go: the facade methods, as the option list each hands to request   *)
(***************************************************************************)
\* GetOpts with the facade's options put before the caller's.
GetOptsDefaultsFirst(url, opts) ==
    <<WithMethod(MethodGet), WithBeforeRequest(Hook("get", url))>> \o opts

\* opts = append(opts, WithMethod(MethodGet), WithBeforeRequest(...))
GetOpts(url, opts) ==
    opts \o <<WithMethod(MethodGet), WithBeforeRequest(Hook("get", url))>>

PostOpts(url, param, opts) ==
    opts \o <<WithMethod(MethodPost), WithParam(param), WithBeforeRequest(Hook("post", ""))>>

PutOpts(url, param, opts) ==
    opts \o <<WithMethod(MethodPut), WithParam(param), WithBeforeRequest(Hook("put", ""))>>

DeleteOpts(url, param, opts) ==
    opts \o <<WithMethod(MethodDelete), WithParam(param), WithBeforeRequest(Hook("delete", url))>>

\* opts = append([]Option{WithUrl(url)}, opts...)
RequestOpts(url, opts) == <<WithUrl(url)>> \o opts

\* A facade call: the method called and its arguments.
Call(kind, url, param, opts) == [kind |-> kind, url |-> url, param |-> param, opts |-> opts]

\* The options request applies for call c.
CallOpts(c) ==
    RequestOpts(c.url,
        CASE c.kind = "Get"    -> GetOpts(c.url, c.opts)
          [] c.kind = "Post"   -> PostOpts(c.url, c.param, c.opts)
          [] c.kind = "Put"    -> PutOpts(c.url, c.param, c.opts)
          [] c.kind = "Delete" -> DeleteOpts(c.url, c.param, c.opts))

\* The verb the facade method of call c injects.
FacadeMethod(c) ==
    CASE c.kind = "Get"    -> MethodGet
      [] c.kind = "Post"   -> MethodPost
      [] c.kind = "Put"    -> MethodPut
      [] c.kind = "Delete" -> MethodDelete

\* The hook the facade method of call c registers.
FacadeHook(c) ==
    CASE c.kind = "Get"    -> Hook("get", c.url)
      [] c.kind = "Post"   -> Hook("post", "")
      [] c.kind = "Put"    -> Hook("put", "")
      [] c.kind = "Delete" -> Hook("delete", c.url)

(***************************************************************************)
(* Inputs                                                                  *)
(***************************************************************************)
UserOk == Hook("userOk", "")

UserFail == Hook("userFail", "")

\* The facade calls made: every method; with and without a parameter map,
\* with a nil and with an empty one; with each kind of caller option.
Calls ==
    { Call("Get", UrlA, NilMap, <<>>),
      Call("Get", UrlBad, NilMap, <<>>),
      Call("Get", UrlA, NilMap, <<WithParam(PQ)>>),
      Call("Get", UrlA, NilMap, <<WithMethod(MethodPost)>>),
      Call("Get", UrlA, NilMap, <<WithUrl(UrlB)>>),
      Call("Get", UrlB, NilMap, <<WithBeforeRequest(UserOk)>>),
      Call("Post", UrlA, NilMap, <<>>),
      Call("Post", UrlA, PN, <<>>),
      Call("Post", UrlB, PQ, <<WithHeader(HX)>>),
      Call("Post", UrlA, PN, <<WithBeforeRequest(UserOk), WithBeforeRequest(UserFail)>>),
      Call("Post", UrlA, PN, <<WithResponse("slot")>>),
      Call("Post", UrlBad, P0, <<>>),
      Call("Put", UrlB, PQ, <<>>),
      Call("Put", UrlA, NilMap, <<>>),
      Call("Delete", UrlA, PN, <<>>),
      Call("Delete", UrlB, PNQ, <<WithDeleteURIFlag(FALSE)>>) }

\* What the caller passes as result: nil, a *string, an *int, a
\* *map[string]interface{}, or a string passed by value.
ResultKinds == {"nil", "ptrString", "ptrInt", "ptrMap", "nonPtr"}

\* Response bodies a server sends: none, a JSON object, text that is not JSON.
BodyJSON == "{\"k\":\"v\"}"

BodyText == "plain"

Bodies == {"", BodyJSON, BodyText}

\* What client.Do meets: a transport failure (the request body read from
\* its buffer or not), or a response, whose body stream may fail when read
\* and may fail when closed.
Transports ==
    { [ok |-> FALSE, body |-> "", readFail |-> FALSE, closeFail |-> FALSE, drained |-> d] :
        d \in BOOLEAN }
    \cup
    { [ok |-> TRUE, body |-> b, readFail |-> FALSE, closeFail |-> c, drained |-> TRUE] :
        b \in Bodies, c \in BOOLEAN }
    \cup
    { [ok |-> TRUE, body |-> BodyText, readFail |-> TRUE, closeFail |-> c, drained |-> TRUE] :
        c \in BOOLEAN }

(***************************************************************************)
(* State                                                                   *)
(***************************************************************************)
VARIABLES
    rec,     \* the *parameter the entity embeds (one per client)
    g,       \* per goroutine: the call in progress and its locals
    slot,    \* the caller's *nethttp.Response that WithResponse("slot") names
    ncalls   \* facade calls started so far

vars == <<rec, g, slot, ncalls>>

NoCall == Call("none", "", NilMap, <<>>)

NoReq == [method |-> "", url |-> "", body |-> NilBody, header |-> EmptyHeaders]

NoResp == [ok |-> FALSE, body |-> "", readFail |-> FALSE, closeFail |-> FALSE, drained |-> FALSE]

\* The result target before the call writes it.
Untouched == "untouched"

\* A goroutine outside any call.
Idle ==
    [pc         |-> "idle",
     call       |-> NoCall,      \* the facade method and its arguments
     result     |-> "nil",       \* the result argument
     start      |-> NewParameter,\* the record as the call found it
     opts       |-> <<>>,        \* the options request applies
     oi         |-> 1,           \* the next option to apply
     hooks      |-> <<>>,        \* the slice the hook loop ranges over
     hi         |-> 1,           \* the next hook to run
     ran        |-> <<>>,        \* the hooks run so far
     req        |-> NoReq,       \* the *http.Request built
     dispatched |-> FALSE,       \* client.Do was called
     resp       |-> NoResp,      \* the response obtained
     stream     |-> "none",      \* resp.Body: none, open, eof, failed
     reads      |-> 0,           \* reads of resp.Body that returned its bytes
     bodyByte   |-> "",
     out        |-> Untouched,   \* the value result points to
     err        |-> NoErr,       \* the named return value
     closes     |-> 0,           \* calls of resp.Body.Close
     steps      |-> <<>>]        \* the pipeline steps after client.Do

EmptySlot == [set |-> FALSE, body |-> "", fresh |-> FALSE]

Init ==
    /\ rec = NewParameter
    /\ g = [p \in Procs |-> Idle]
    /\ slot = EmptySlot
    /\ ncalls = 0

Me(p, new) == g' = [g EXCEPT ![p] = new]

(***************************************************************************)
(* http.go: entity.request, step by step                                   *)
(***************************************************************************)
\* A facade method is entered with call c and result target rk.
Enter(p, c, rk) ==
    /\ g[p].pc = "idle"
    /\ ncalls < MaxCalls
    /\ ncalls' = ncalls + 1
    /\ Me(p, [Idle EXCEPT !.pc = "withOpt", !.call = c, !.result = rk,
                          !.start = rec, !.opts = CallOpts(c)])
    /\ UNCHANGED <<rec, slot>>

\* withOpt: o.apply(r.parameter) for the next option; after the last one
\* the hook loop takes the slice it ranges over.
ApplyOpt(p) ==
    /\ g[p].pc = "withOpt"
    /\ LET me == g[p]
           r2 == Apply(me.opts[me.oi], rec)
       IN  /\ rec' = r2
           /\ IF me.oi < Len(me.opts)
              THEN Me(p, [me EXCEPT !.oi = me.oi + 1])
              ELSE Me(p, [me EXCEPT !.pc = "hooks", !.hooks = r2.beforeRequest, !.hi = 1])
    /\ UNCHANGED <<slot, ncalls>>

\* RunHook without the return on a hook's error: the loop goes on.
RunHookKeepsGoing(p) ==
    /\ g[p].pc = "hooks"
    /\ g[p].hi <= Len(g[p].hooks)
    /\ LET me  == g[p]
           h   == me.hooks[me.hi]
           res == CallHook(h, rec)
       IN  /\ rec' = res.r
           /\ Me(p, [me EXCEPT !.ran = Append(me.ran, h), !.hi = me.hi + 1,
                               !.err = IF IsErr(res.err)
                                       THEN Errorf("request callback err", res.err)
                                       ELSE me.err])
    /\ UNCHANGED <<slot, ncalls>>

\* One turn of "for _, beforeRequest := range r.beforeRequest".
RunHook(p) ==
    /\ g[p].pc = "hooks"
    /\ g[p].hi <= Len(g[p].hooks)
    /\ LET me  == g[p]
           h   == me.hooks[me.hi]
           res == CallHook(h, rec)
       IN  /\ rec' = res.r
           /\ IF IsErr(res.err)
              THEN Me(p, [me EXCEPT !.ran = Append(me.ran, h), !.pc = "done",
                                    !.err = Errorf("request callback err", res.err)])
              ELSE Me(p, [me EXCEPT !.ran = Append(me.ran, h), !.hi = me.hi + 1])
    /\ UNCHANGED <<slot, ncalls>>

\* http.NewRequestWithContext(ctx, r.method, r.url, r.body) and the copy
\* of r.header onto the request.
BuildRequest(r) ==
    [method |-> r.method, url |-> r.url, body |-> r.body, header |-> r.header.m]

NewRequest(p) ==
    /\ g[p].pc = "hooks"
    /\ g[p].hi > Len(g[p].hooks)
    /\ LET me == g[p]
       IN  IF ~ParseOk(rec.url)
           THEN Me(p, [me EXCEPT !.pc = "done",
                                 !.err = Errorf("request NewRequestWithContext err", Leaf("parse"))])
           ELSE Me(p, [me EXCEPT !.pc = "do", !.req = BuildRequest(rec)])
    /\ UNCHANGED <<rec, slot, ncalls>>

\* The transport reads the request body out of the buffer it was built on.
AfterSend(body, sentBody, drained) ==
    IF ~body.nil /\ body = sentBody /\ drained THEN Buffer("") ELSE body

\* client.Do(req)
DoWith(p, t) ==
    /\ g[p].pc = "do"
    /\ LET me == g[p]
       IN  /\ rec' = [rec EXCEPT !.body = AfterSend(rec.body, me.req.body, t.drained)]
           /\ IF ~t.ok
              THEN Me(p, [me EXCEPT !.pc = "done", !.dispatched = TRUE,
                                    !.err = Errorf("request do err", Leaf("transport"))])
              ELSE Me(p, [me EXCEPT !.pc = "capture", !.dispatched = TRUE,
                                    !.resp = t, !.stream = "open"])
    /\ UNCHANGED <<slot, ncalls>>

\* ioutil.ReadAll(resp.Body) / io.Copy(ioutil.Discard, resp.Body): what is
\* read, whether it fails, and the stream afterwards.
ReadAll(me) ==
    IF me.stream = "open"
    THEN IF me.resp.readFail
         THEN [data |-> "", failed |-> TRUE, stream |-> "failed", reads |-> me.reads]
         ELSE [data |-> me.resp.body, failed |-> FALSE, stream |-> "eof", reads |-> me.reads + 1]
    ELSE [data |-> "", failed |-> me.stream = "failed", stream |-> me.stream, reads |-> me.reads]

\* Capture without the buffering: the slot is given the response with its
\* one-shot stream, which the later read of the same call consumes.
CaptureSharesStream(p) ==
    /\ g[p].pc = "capture"
    /\ IF rec.response = "nil"
       THEN /\ Me(p, [g[p] EXCEPT !.pc = "result"])
            /\ UNCHANGED slot
       ELSE /\ Me(p, [g[p] EXCEPT !.pc = "result",
                                  !.steps = Append(g[p].steps, "capture")])
            /\ slot' = [set |-> TRUE, body |-> "", fresh |-> FALSE]
    /\ UNCHANGED <<rec, ncalls>>

\* "完整Response": with a capture slot, the response is copied into it, the
\* body read whole, and a fresh reader over the bytes put in the slot.
Capture(p) ==
    /\ g[p].pc = "capture"
    /\ LET me == g[p]
           rd == ReadAll(me)
       IN  IF rec.response = "nil"
           THEN /\ Me(p, [me EXCEPT !.pc = "result"])
                /\ UNCHANGED slot
           ELSE IF rd.failed
           THEN /\ Me(p, [me EXCEPT !.pc = "close", !.stream = rd.stream,
                                    !.steps = Append(me.steps, "capture"),
                                    !.err = Errorf("request read err", Leaf("read"))])
                /\ slot' = [set |-> TRUE, body |-> "", fresh |-> FALSE]
           ELSE /\ Me(p, [me EXCEPT !.pc = "result", !.stream = rd.stream, !.reads = rd.reads,
                                    !.steps = Append(me.steps, "capture"),
                                    !.bodyByte = rd.data])
                /\ slot' = [set |-> TRUE, body |-> rd.data, fresh |-> TRUE]
    /\ UNCHANGED <<rec, ncalls>>

\* Drain without the io.Copy: the call returns and leaves the body unread.
DrainSkipsRead(p) ==
    /\ g[p].pc = "result"
    /\ g[p].result = "nil"
    /\ Me(p, [g[p] EXCEPT !.pc = "close", !.steps = Append(g[p].steps, "drain"),
                          !.err = NoErr])
    /\ UNCHANGED <<rec, slot, ncalls>>

\* "不需要解析返回值": result == nil, the body is drained.
Drain(p) ==
    /\ g[p].pc = "result"
    /\ g[p].result = "nil"
    /\ LET me == g[p]
           rd == ReadAll(me)
       IN  Me(p, [me EXCEPT !.pc = "close", !.stream = rd.stream, !.reads = rd.reads,
                            !.steps = Append(me.steps, "drain"),
                            !.err = IF rd.failed THEN Errorf("resp body clear err", Leaf("read"))
                                    ELSE NoErr])
    /\ UNCHANGED <<rec, slot, ncalls>>

\* ReadBody without "没有内容": an empty body goes on to the decoding.
ReadBodyDecodesEmpty(p) ==
    /\ g[p].pc = "result"
    /\ g[p].result # "nil"
    /\ LET me == g[p]
           rd == ReadAll(me)
       IN  IF me.bodyByte # ""
           THEN Me(p, [me EXCEPT !.pc = "decode"])
           ELSE IF rd.failed
           THEN Me(p, [me EXCEPT !.pc = "close", !.stream = rd.stream,
                                 !.steps = Append(me.steps, "read"),
                                 !.err = Errorf("request read err", Leaf("read"))])
           ELSE Me(p, [me EXCEPT !.pc = "decode",
                                 !.stream = rd.stream, !.reads = rd.reads,
                                 !.steps = Append(me.steps, "read"),
                                 !.bodyByte = rd.data])
    /\ UNCHANGED <<rec, slot, ncalls>>

\* "读取请求" and "没有内容": the body is read unless bodyByte holds it; an
\* empty body ends the call.
ReadBody(p) ==
    /\ g[p].pc = "result"
    /\ g[p].result # "nil"
    /\ LET me == g[p]
           rd == ReadAll(me)
       IN  IF me.bodyByte # ""
           THEN Me(p, [me EXCEPT !.pc = "decode"])
           ELSE IF rd.failed
           THEN Me(p, [me EXCEPT !.pc = "close", !.stream = rd.stream,
                                 !.steps = Append(me.steps, "read"),
                                 !.err = Errorf("request read err", Leaf("read"))])
           ELSE Me(p, [me EXCEPT !.pc = IF rd.data = "" THEN "close" ELSE "decode",
                                 !.stream = rd.stream, !.reads = rd.reads,
                                 !.steps = Append(me.steps, "read"),
                                 !.bodyByte = rd.data])
    /\ UNCHANGED <<rec, slot, ncalls>>

\* json.Valid(bodyByte)
JSONValid(b) == b = BodyJSON

\* json.Unmarshal(bodyByte, &result) of a JSON object: through the interface
\* into what result points to, when that can hold an object; into the local
\* interface itself when result is no pointer.
Unmarshal(b, kind, out) ==
    CASE kind = "ptrMap" -> [err |-> NoErr, out |-> b]
      [] kind = "nonPtr" -> [err |-> NoErr, out |-> out]
      [] OTHER           -> [err |-> Errorf("request json un err", Leaf("json: cannot unmarshal")),
                             out |-> out]

\* SetString without the test of the pointed-to kind: any pointer is set.
SetStringAnyPointer(b, kind, out) ==
    CASE kind = "nonPtr" -> [err |-> Leaf("result must be a pointer"), out |-> out]
      [] OTHER           -> [err |-> NoErr, out |-> b]

\* "按照字符串解析返回值": reflection on result.
SetString(b, kind, out) ==
    CASE kind = "nonPtr"    -> [err |-> Leaf("result must be a pointer"), out |-> out]
      [] kind = "ptrString" -> [err |-> NoErr, out |-> b]
      [] OTHER              -> [err |-> Leaf("result must be a string"), out |-> out]

\* Decode with the close not deferred: a decode error returns at once.
DecodeErrorSkipsClose(p) ==
    /\ g[p].pc = "decode"
    /\ LET me == g[p]
           d  == IF JSONValid(me.bodyByte) THEN Unmarshal(me.bodyByte, me.result, me.out)
                 ELSE SetString(me.bodyByte, me.result, me.out)
       IN  Me(p, [me EXCEPT !.pc = IF IsErr(d.err) THEN "done" ELSE "close",
                            !.steps = Append(me.steps, "decode"),
                            !.err = d.err, !.out = d.out])
    /\ UNCHANGED <<rec, slot, ncalls>>

\* The decoding of a body that is not empty into a result that is not nil.
Decode(p) ==
    /\ g[p].pc = "decode"
    /\ LET me == g[p]
           d  == IF JSONValid(me.bodyByte) THEN Unmarshal(me.bodyByte, me.result, me.out)
                 ELSE SetString(me.bodyByte, me.result, me.out)
       IN  Me(p, [me EXCEPT !.pc = "close", !.steps = Append(me.steps, "decode"),
                            !.err = d.err, !.out = d.out])
    /\ UNCHANGED <<rec, slot, ncalls>>

\* CloseErr without errStr: the pending error is dropped from the message.
CloseErrDropsPrior(prior) ==
    [text  |-> <<"resp body close err", "close">>,
     wraps |-> <<"resp body close err", "close">>]

\* The error the deferred function leaves when resp.Body.Close() fails.
CloseErr(prior) ==
    [text  |-> <<"resp body close err">> \o prior.text \o <<"close">>,
     wraps |-> <<"resp body close err", "close">>]

\* The deferred resp.Body.Close().
Close(p) ==
    /\ g[p].pc = "close"
    /\ LET me == g[p]
       IN  Me(p, [me EXCEPT !.pc = "done", !.closes = me.closes + 1,
                            !.steps = Append(me.steps, "close"),
                            !.stream = "closed",
                            !.err = IF me.resp.closeFail THEN CloseErr(me.err) ELSE me.err])
    /\ UNCHANGED <<rec, slot, ncalls>>

\* The facade method returns err to its caller.
Return(p) ==
    /\ g[p].pc = "done"
    /\ Me(p, Idle)
    /\ UNCHANGED <<rec, slot, ncalls>>

(***************************************************************************)
(* Specifications                                                          *)
(***************************************************************************)
\* One goroutine calls the client; each call runs to completion.
Start == \E c \in Calls, rk \in ResultKinds : Enter(1, c, rk)

Do == \E t \in Transports : DoWith(1, t)

Next ==
    \/ Start
    \/ ApplyOpt(1)
    \/ RunHook(1)
    \/ NewRequest(1)
    \/ Do
    \/ Capture(1)
    \/ Drain(1)
    \/ ReadBody(1)
    \/ Decode(1)
    \/ Close(1)
    \/ Return(1)

Spec == Init /\ [][Next]_vars

\* Two goroutines call the same client (or the package-level defaultHttp)
\* at once, with no result target; the steps of their calls interleave.
ConcCalls ==
    { Call("Get", UrlA, NilMap, <<>>),
      Call("Post", UrlB, PQ, <<>>),
      Call("Delete", UrlA, PN, <<>>) }

ConcTransports == {t \in Transports : t.body = "" /\ ~t.closeFail /\ t.drained}

StartConc(p) == \E c \in ConcCalls : Enter(p, c, "nil")

DoConc(p) == \E t \in ConcTransports : DoWith(p, t)

NextConc ==
    \E p \in Procs :
        \/ StartConc(p)
        \/ ApplyOpt(p)
        \/ RunHook(p)
        \/ NewRequest(p)
        \/ DoConc(p)
        \/ Capture(p)
        \/ Drain(p)
        \/ Close(p)
        \/ Return(p)

SpecConc == Init /\ [][NextConc]_vars

(***************************************************************************)
(* A call run alone: withOpt and the hook loop as functions of the record  *)
(***************************************************************************)
\* withOpt(opts...): every option applied, in order.
RECURSIVE WithOpt(_, _)
WithOpt(opts, r) ==
    IF opts = <<>> THEN r ELSE WithOpt(Tail(opts), Apply(Head(opts), r))

\* The hook loop over hooks from record r: the hooks run, the record left
\* and the error of the hook that stopped it.
RECURSIVE HookLoop(_, _, _)
HookLoop(hooks, r, ran) ==
    IF hooks = <<>> THEN [ran |-> ran, r |-> r, err |-> NoErr]
    ELSE LET res == CallHook(Head(hooks), r)
         IN  IF IsErr(res.err)
             THEN [ran |-> Append(ran, Head(hooks)), r |-> res.r, err |-> res.err]
             ELSE HookLoop(Tail(hooks), res.r, Append(ran, Head(hooks)))

\* Call c run from record r with nothing else touching the record: the
\* hooks it runs and the request it builds.
Alone(c, r) ==
    LET r1 == WithOpt(CallOpts(c), r)
        hl == HookLoop(r1.beforeRequest, r1, <<>>)
    IN  [ran |-> hl.ran,
         req |-> IF IsErr(hl.err) \/ ~ParseOk(hl.r.url) THEN NoReq ELSE BuildRequest(hl.r)]

(***************************************************************************)
(* option.go alone: the options of one withOpt, applied to a new record    *)
(***************************************************************************)
\* Bound: the number of options one withOpt is handed.
MaxOpts == 3

\* 10 * time.Second, the duration a caller writes for ten seconds.
TenSeconds == Mul64(Small(10), Second)

\* Arguments of WithTimeout: the counts 1 and 3, and ten seconds as a
\* time.Duration.
TimeoutArgs == {Small(1), Small(3), TenSeconds}

\* Maps for the merges: PN2 holds PN's key with another value; HC holds a
\* key of New's header map, HX does not.
PN2 == MapOf([EmptyParams EXCEPT !["n"] = "sab"])

HC == [nil |-> FALSE, m |-> [EmptyHeaders EXCEPT !["Content-Type"] = "text/plain"]]

OptInputs ==
    {WithUrl(UrlA), WithUrl(UrlB), WithMethod(MethodPost), WithMethod(MethodPut),
     WithTLSClientConfig("skip"), WithResponse("slot"), WithLogger("logger"),
     WithDeleteURIFlag(FALSE), WithDeleteURIFlag(TRUE),
     WithParam(PN), WithParam(PQ), WithParam(PN2), WithParam(NilMap),
     WithHeader(HX), WithHeader(HC), WithBeforeRequest(UserOk)}
    \cup {WithTimeout(t) : t \in TimeoutArgs}

\* One round of the loop of withOpt: o.apply(r.parameter).  g[1].opts is
\* the list of the options applied so far.
ApplyOne(o) ==
    /\ Len(g[1].opts) < MaxOpts
    /\ rec' = Apply(o, rec)
    /\ g' = [g EXCEPT ![1].opts = Append(@, o)]
    /\ UNCHANGED <<slot, ncalls>>

NextOpt == \E o \in OptInputs : ApplyOne(o)

SpecOpt == Init /\ [][NextOpt]_vars

(***************************************************************************)
(* Claims                                                                  *)
(***************************************************************************)
\* The options of kind k that the caller of c passed.
CallerOpts(c, k) == SelectSeq(c.opts, LAMBDA o : o.k = k)

HasCallerOpt(c, k) == CallerOpts(c, k) # <<>>

\* The hooks the caller of c passed, in order.
CallerHooks(c) ==
    LET os == CallerOpts(c, "beforeRequest") IN [i \in 1..Len(os) |-> os[i].h]

\* The parameter map the caller of c supplied through WithParam options.
CallerParams(c) == WithOpt(CallerOpts(c, "param"), NewParameter).param

\* The goroutines inside a call whose request went to client.Do.
Dispatched(p) == g[p].pc # "idle" /\ g[p].dispatched

\* C1: every call starts applying its options to a record equal to the
\* default record: nothing an earlier call set is still present.
C1_FreshRecordPerCall ==
    \A p \in Procs : g[p].pc # "idle" => g[p].start = NewParameter

\* C2: under every interleaving of concurrent calls, each call runs the
\* hooks and dispatches the request that it does when it runs alone from
\* the record it found.
C2_ConcurrentCallsAsAlone ==
    \A p \in Procs :
        Dispatched(p) =>
            /\ g[p].req = Alone(g[p].call, g[p].start).req
            /\ g[p].ran = Alone(g[p].call, g[p].start).ran

\* C3: the request of a Post or Put call, made with no caller URL option
\* and no caller hook, is sent to the url argument of that call.
C3_PostPutTargetIsUrlArgument ==
    \A p \in Procs :
        ( /\ Dispatched(p)
          /\ g[p].call.kind \in {"Post", "Put"}
          /\ ~HasCallerOpt(g[p].call, "url")
          /\ ~HasCallerOpt(g[p].call, "beforeRequest") )
        => g[p].req.url = g[p].call.url

\* C4: for a non-nil parameter map P, the body dispatched by Post(url, P)
\* or Put(url, P) is the JSON encoding of exactly P.
C4_PostPutBodyIsJsonOfParam ==
    \A p \in Procs :
        ( /\ Dispatched(p)
          /\ g[p].call.kind \in {"Post", "Put"}
          /\ ~g[p].call.param.nil
          /\ ~HasCallerOpt(g[p].call, "param")
          /\ ~HasCallerOpt(g[p].call, "beforeRequest") )
        => g[p].req.body = Buffer(Marshal(g[p].call.param.m))

\* C5: Post or Put with a nil parameter map dispatches a request with no
\* body.
C5_NilParamNoBody ==
    \A p \in Procs :
        ( /\ Dispatched(p)
          /\ g[p].call.kind \in {"Post", "Put"}
          /\ g[p].call.param.nil
          /\ g[p].start = NewParameter )
        => g[p].req.body.nil

\* C6 as claimed: a Method option of the caller decides the method of the
\* outbound request.
C6_CallerMethodOverridesFacade ==
    \A p \in Procs :
        (Dispatched(p) /\ HasCallerOpt(g[p].call, "method"))
        => LET ms == CallerOpts(g[p].call, "method") IN g[p].req.method = ms[Len(ms)].s

\* C6 amended: the facade's options are applied after the caller's, so the
\* hook loop ends with the facade's hook and the outbound request carries
\* the facade's verb, whatever Method option the caller passed.
C6_FacadeOptionsApplyLast ==
    \A p \in Procs :
        /\ g[p].pc \notin {"idle", "withOpt"}
            => g[p].hooks # <<>> /\ g[p].hooks[Len(g[p].hooks)] = FacadeHook(g[p].call)
        /\ Dispatched(p) => g[p].req.method = FacadeMethod(g[p].call)

\* C6 reached: a Get called with WithMethod(MethodPost) was dispatched as a GET.
C6_Witness ==
    /\ Dispatched(1)
    /\ g[1].call.kind = "Get"
    /\ CallerOpts(g[1].call, "method") = <<WithMethod(MethodPost)>>
    /\ g[1].req.method = MethodGet

\* Whether the hook run last returned an error.
LastHookFailed(p) ==
    g[p].ran # <<>> /\ IsErr(CallHook(g[p].ran[Len(g[p].ran)], rec).err)

\* C7: the hooks run in registration order; when one returns an error no
\* later hook runs, no request is built or dispatched, and the call returns
\* an error wrapping the hook's.
C7_HookChainOrderAndShortCircuit ==
    \A p \in Procs :
        LET me == g[p] IN
        /\ me.pc \notin {"idle", "withOpt"}
            => me.hooks = me.start.beforeRequest \o CallerHooks(me.call) \o <<FacadeHook(me.call)>>
        /\ Len(me.ran) <= Len(me.hooks)
        /\ me.ran = SubSeq(me.hooks, 1, Len(me.ran))
        /\ \A i \in 1..(Len(me.ran) - 1) : ~IsErr(CallHook(me.ran[i], rec).err)
        /\ LastHookFailed(p)
            => /\ me.pc = "done"
               /\ me.req = NoReq
               /\ ~me.dispatched
               /\ me.err = Errorf("request callback err", CallHook(me.ran[Len(me.ran)], rec).err)
        /\ me.req # NoReq => me.ran = me.hooks /\ ~LastHookFailed(p)

\* C7 reached: of three hooks the first ran, the second failed and ended the
\* call with its error wrapped, and the third never ran.
C7_Witness ==
    /\ g[1].pc = "done"
    /\ LastHookFailed(1)
    /\ Len(g[1].ran) = 2
    /\ Len(g[1].hooks) = 3
    /\ g[1].ran[1] = UserOk
    /\ g[1].err.wraps = <<"request callback err", "user hook err">>

\* C10: once a response was obtained its body is closed exactly once, as
\* the last step of the call, on every path; it is not closed before.
C10_BodyClosedOnceAndLast ==
    \A p \in Procs :
        LET me == g[p] IN
        /\ me.closes <= 1
        /\ ~me.resp.ok => me.closes = 0
        /\ (me.resp.ok /\ me.pc # "done") => me.closes = 0
        /\ (me.resp.ok /\ me.pc = "done")
            => /\ me.closes = 1
               /\ me.steps # <<>>
               /\ me.steps[Len(me.steps)] = "close"
               /\ me.stream = "closed"

\* C10 reached: a call whose decoding failed has closed the body, once, as
\* its last step.
C10_Witness ==
    /\ g[1].pc = "done"
    /\ g[1].resp.ok
    /\ g[1].steps = <<"read", "decode", "close">>
    /\ IsErr(g[1].err)
    /\ g[1].closes = 1

\* The URL the query hook builds from url argument u and parameter map m.
UrlWithQuery(u, m) == URLString([Parse(u) EXCEPT !.rawQuery = Encode(m)])

\* C8: a Get call to which the caller supplied parameter map P dispatches a
\* request to the url argument with the query string Encode(P), and with
\* no body.
C8_GetQueryIsEncodedParams ==
    \A p \in Procs :
        ( /\ Dispatched(p)
          /\ g[p].call.kind = "Get"
          /\ ~HasCallerOpt(g[p].call, "url")
          /\ ~HasCallerOpt(g[p].call, "beforeRequest") )
        => /\ g[p].req.url = UrlWithQuery(g[p].call.url, CallerParams(g[p].call).m)
           /\ g[p].req.body.nil

\* The delete-uses-query-string flag call c asks for: the caller's
\* WithDeleteURIFlag, or the default.
DeleteFlag(c) ==
    LET fs == CallerOpts(c, "deleteUriFlag")
    IN  IF fs = <<>> THEN NewParameter.deleteUriFlag ELSE fs[Len(fs)].b

\* C9: Delete(url, P) with a non-nil P dispatches the JSON encoding of P as
\* body; with the flag true the URL carries the query string Encode(P),
\* with the flag false the URL is the url argument unchanged.
C9_DeleteBodyAndQuery ==
    \A p \in Procs :
        ( /\ Dispatched(p)
          /\ g[p].call.kind = "Delete"
          /\ ~g[p].call.param.nil
          /\ ~HasCallerOpt(g[p].call, "param")
          /\ ~HasCallerOpt(g[p].call, "url")
          /\ ~HasCallerOpt(g[p].call, "beforeRequest") )
        => /\ g[p].req.body = Buffer(Marshal(g[p].call.param.m))
           /\ g[p].req.url = IF DeleteFlag(g[p].call)
                             THEN UrlWithQuery(g[p].call.url, g[p].call.param.m)
                             ELSE g[p].call.url

\* Whether step s is among the steps taken after client.Do.
Took(p, s) == \E i \in 1..Len(g[p].steps) : g[p].steps[i] = s

\* The call's error as the decoding left it: before the deferred close, or
\* after a close that succeeded.
DecodeOutcomeVisible(p) ==
    /\ Took(p, "decode")
    /\ g[p].pc = "close" \/ (g[p].pc = "done" /\ ~g[p].resp.closeFail)

\* C11: a non-empty body and a non-nil result are decoded: a body that is
\* valid JSON is unmarshalled into the result target and never assigned as
\* text; a body that is not is assigned to a *string result, and fails with
\* "result must be a pointer" for a result that is no pointer and with
\* "result must be a string" for a pointer to another type, the target
\* then left as it was.
C11_DecodeDecision ==
    \A p \in Procs :
        LET me == g[p] IN
        /\ ( /\ me.pc = "done" /\ me.resp.ok /\ ~me.resp.readFail
             /\ me.resp.body # "" /\ me.result # "nil" )
            => Took(p, "decode") /\ me.bodyByte = me.resp.body
        /\ Took(p, "decode") => me.bodyByte # "" /\ me.result # "nil"
        /\ (DecodeOutcomeVisible(p) /\ JSONValid(me.bodyByte))
            => /\ me.result = "ptrMap" => me.err = NoErr /\ me.out = me.bodyByte
               /\ me.result = "nonPtr" => me.err = NoErr /\ me.out = Untouched
               /\ me.result \in {"ptrString", "ptrInt"}
                    => /\ me.err.wraps[1] = "request json un err"
                       /\ me.out = Untouched
        /\ (DecodeOutcomeVisible(p) /\ ~JSONValid(me.bodyByte))
            => /\ me.result = "ptrString" => me.err = NoErr /\ me.out = me.bodyByte
               /\ me.result = "nonPtr"
                    => me.err = Leaf("result must be a pointer") /\ me.out = Untouched
               /\ me.result \in {"ptrInt", "ptrMap"}
                    => me.err = Leaf("result must be a string") /\ me.out = Untouched

\* C11 reached: the body "plain" met an *int result; the call ended with
\* "result must be a string" and the target untouched.
C11_Witness ==
    /\ g[1].pc = "done"
    /\ g[1].result = "ptrInt"
    /\ g[1].bodyByte = BodyText
    /\ g[1].err = Leaf("result must be a string")
    /\ g[1].out = Untouched

\* The response of p's call arrived and its body was read to the end.
BodyRead(p) ==
    /\ g[p].pc \in {"close", "done"}
    /\ g[p].resp.ok
    /\ ~g[p].resp.readFail

\* The error p's call holds was not replaced by a failed close.
CloseKeptOutcome(p) == g[p].pc = "close" \/ ~g[p].resp.closeFail

\* C12: a call whose response body is empty ends without error and without
\* a decoding step, its result target as the caller passed it, with and
\* without a response-capture slot in the record.
C12_EmptyBodyLeavesResult ==
    \A p \in Procs :
        (BodyRead(p) /\ g[p].resp.body = "")
            => /\ g[p].out = Untouched
               /\ ~Took(p, "decode")
               /\ g[p].bodyByte = ""
               /\ CloseKeptOutcome(p) => g[p].err = NoErr

\* C12 reached: an empty body, a *string result and a capture slot; the call
\* is over, without error, the result untouched.
C12_Witness ==
    /\ g[1].pc = "done"
    /\ g[1].resp.ok
    /\ g[1].resp.body = ""
    /\ g[1].result = "ptrString"
    /\ Took(1, "capture")
    /\ Took(1, "read")
    /\ g[1].err = NoErr
    /\ g[1].out = Untouched

\* C12 reached without a capture slot.
C12_WitnessNoSlot ==
    /\ g[1].pc = "done"
    /\ g[1].resp.body = ""
    /\ g[1].result = "ptrMap"
    /\ ~Took(1, "capture")
    /\ Took(1, "read")
    /\ g[1].err = NoErr

\* C13: a call without a result target reads the response body to its end
\* and drops it, takes no reading-for-decoding and no decoding step, and
\* ends without error, for an empty, a JSON and a non-JSON body, with and
\* without a response-capture slot in the record.
C13_NilResultDrains ==
    \A p \in Procs :
        (g[p].pc \in {"close", "done"} /\ g[p].resp.ok /\ g[p].result = "nil")
            => /\ ~Took(p, "decode")
               /\ ~Took(p, "read")
               /\ g[p].out = Untouched
               /\ ~g[p].resp.readFail
                    => /\ Took(p, "drain")
                       /\ g[p].reads = 1
                       /\ CloseKeptOutcome(p) => g[p].err = NoErr

\* C13 reached: a JSON body, no result target, a capture slot; the body was
\* drained and the call is over without error.
C13_Witness ==
    /\ g[1].pc = "done"
    /\ g[1].resp.ok
    /\ g[1].resp.body = BodyJSON
    /\ g[1].result = "nil"
    /\ Took(1, "capture")
    /\ Took(1, "drain")
    /\ g[1].err = NoErr

\* C13 reached without a capture slot, on a non-JSON body.
C13_WitnessNoSlot ==
    /\ g[1].pc = "done"
    /\ g[1].resp.body = BodyText
    /\ ~g[1].resp.readFail
    /\ g[1].result = "nil"
    /\ ~Took(1, "capture")
    /\ Took(1, "drain")
    /\ g[1].err = NoErr

\* p's call copied the response into the capture slot and read the body.
Captured(p) ==
    /\ Took(p, "capture")
    /\ g[p].pc \in {"result", "decode", "close", "done"}
    /\ ~g[p].resp.readFail

\* C14: once a call with a capture slot in the record has read the body,
\* the slot holds the response with an unread reader over the whole body,
\* the call's own bodyByte is the whole body too, so the decoding works on
\* all of it, and the bytes were taken from the response stream once.
C14_CaptureKeepsWholeBody ==
    Captured(1)
        => /\ slot = [set |-> TRUE, body |-> g[1].resp.body, fresh |-> TRUE]
           /\ g[1].bodyByte = g[1].resp.body
           /\ g[1].reads = 1
           /\ (Took(1, "decode") /\ CloseKeptOutcome(1) /\ g[1].result = "ptrString"
               /\ ~JSONValid(g[1].bodyByte))
                => g[1].out = g[1].resp.body

\* C14 reached: the text body was captured and then set into the *string
\* result of the same call.
C14_Witness ==
    /\ g[1].pc = "done"
    /\ Took(1, "capture")
    /\ Took(1, "decode")
    /\ g[1].resp.body = BodyText
    /\ g[1].out = BodyText
    /\ slot = [set |-> TRUE, body |-> BodyText, fresh |-> TRUE]

\* The message of e holds the message of d, whole and in order.
Mentions(e, d) ==
    \E i \in 1..(Len(e.text) + 1) :
        /\ i + Len(d.text) - 1 <= Len(e.text)
        /\ SubSeq(e.text, i, i + Len(d.text) - 1) = d.text

\* C15: the deferred close of the response stream, when it fails, makes
\* the call's error one that reports the close failure and whose message
\* holds the message of the error pending before it, if any; when it
\* succeeds, the call's error (or success) stays as it was.
C15_CloseFailureCombines ==
    [][ (g[1].pc = "close" /\ g'[1].pc = "done")
          => IF g[1].resp.closeFail
             THEN /\ IsErr(g'[1].err)
                  /\ Mentions(g'[1].err, Leaf("close"))
                  /\ g'[1].err.text[1] = "resp body close err"
                  /\ Mentions(g'[1].err, g[1].err)
                  /\ Len(g'[1].err.text) = Len(g[1].err.text) + 2
             ELSE g'[1].err = g[1].err ]_vars

\* C15 reached: the decoding failed, then the close failed, and the call's
\* error reports both.
C15_Witness ==
    /\ g[1].pc = "done"
    /\ g[1].resp.closeFail
    /\ Took(1, "decode")
    /\ g[1].err = CloseErr(Leaf("result must be a string"))
    /\ Mentions(g[1].err, Leaf("result must be a string"))

\* The options of one withOpt that were applied so far, and the record a
\* new client has after the first n of them.
Applied == g[1].opts

RecordAfter(n) == WithOpt(SubSeq(Applied, 1, n), NewParameter)

ScalarKinds == {"url", "method", "timeout", "tls", "response", "log", "deleteUriFlag"}

\* The keys a map holds.
KeysOf(mp) == {k \in DOMAIN mp.m : mp.m[k] # Absent}

\* mp holds the entries of a and of b, and under every other key what
\* before held.
IsUnionOver(mp, a, b, before) ==
    \A k \in DOMAIN mp.m :
        mp.m[k] = IF k \in KeysOf(a) THEN a.m[k]
                  ELSE IF k \in KeysOf(b) THEN b.m[k]
                  ELSE before.m[k]

\* C16: a scalar option applied a second time with the same value leaves
\* the record as the first application left it; two parameter merges, or
\* two header merges, of maps with no key in common leave a map with the
\* entries of both, and with every entry held before under another key.
C16_ScalarIdempotentMapsUnion ==
    LET n == Len(Applied) IN
    n >= 2 =>
        LET a == Applied[n - 1]
            b == Applied[n]
        IN  /\ (a = b /\ a.k \in ScalarKinds) => rec = RecordAfter(n - 1)
            /\ (a.k = "param" /\ b.k = "param" /\ KeysOf(a.m) \cap KeysOf(b.m) = {})
                => /\ IsUnionOver(rec.param, a.m, b.m, RecordAfter(n - 2).param)
                   /\ KeysOf(rec.param) =
                        KeysOf(a.m) \cup KeysOf(b.m) \cup KeysOf(RecordAfter(n - 2).param)
            /\ (a.k = "header" /\ b.k = "header" /\ KeysOf(a.m) \cap KeysOf(b.m) = {})
                => /\ IsUnionOver(rec.header, a.m, b.m, RecordAfter(n - 2).header)
                   /\ KeysOf(rec.header) =
                        KeysOf(a.m) \cup KeysOf(b.m) \cup KeysOf(RecordAfter(n - 2).header)

\* C16 reached: after a merge of {"n": "a b"}, the merges of {"n": 1} and of
\* {"q": "a b"} left both entries in the parameters.
C16_Witness ==
    /\ Len(Applied) = 3
    /\ Applied[1] = WithParam(PN2)
    /\ Applied[2] = WithParam(PN)
    /\ Applied[3] = WithParam(PQ)
    /\ rec.param = PNQ

\* C16 reached for a scalar option: WithTimeout of ten seconds, twice.
C16_WitnessScalar ==
    /\ Len(Applied) = 2
    /\ Applied[1] = WithTimeout(TenSeconds)
    /\ Applied[2] = WithTimeout(TenSeconds)
    /\ rec = RecordAfter(1)

\* The option p's withOpt applies next, if any.
NextOption(p) ==
    IF g[p].pc = "withOpt" /\ g[p].oi <= Len(g[p].opts)
    THEN g[p].opts[g[p].oi]
    ELSE WithUrl("")

\* C17: the headers map and the parameters map of the client's record are
\* never nil, from New on and through every option and call, so a
\* WithParam or WithHeader about to be applied writes into a map.
C17_MapsNeverNil ==
    /\ ~rec.param.nil
    /\ ~rec.header.nil
    /\ \A p \in Procs :
        /\ NextOption(p).k = "param" => ~rec.param.nil
        /\ NextOption(p).k = "header" => ~rec.header.nil

\* C17 reached: two calls were made, their merges of parameters and of a
\* header are in the record, and both maps are maps.
C17_Witness ==
    /\ ncalls = 2
    /\ g[1].pc = "done"
    /\ rec.param = PNQ
    /\ rec.header.m["X-A"] = "1"
    /\ ~rec.param.nil
    /\ ~rec.header.nil

\* p's call is a Get, or a Delete made with deleteUriFlag set in the record.
BuildsQuery(p) ==
    \/ g[p].call.kind = "Get"
    \/ g[p].call.kind = "Delete" /\ rec.deleteUriFlag

\* C18: the request of a Get, and of a Delete with deleteUriFlag set, goes
\* to the url argument of the facade method with its query replaced by the
\* encoding of the record's parameters: the query the argument came with is
\* gone, no parameters leave no query, and a URL a caller's WithUrl put in
\* the record is not the one requested.
C18_QueryHookRewritesUrl ==
    (Dispatched(1) /\ BuildsQuery(1))
        => /\ g[1].req.url = UrlWithQuery(g[1].call.url, rec.param.m)
           /\ g[1].req.url =
                Parse(g[1].call.url).path
                \o (IF KeysOf(rec.param) = {} THEN "" ELSE "?" \o Encode(rec.param.m))
           /\ rec.url = g[1].req.url

\* C18 reached: Get of UrlA with the caller's WithUrl(UrlB) was sent to UrlA.
C18_Witness ==
    /\ Dispatched(1)
    /\ g[1].call = Call("Get", UrlA, NilMap, <<WithUrl(UrlB)>>)
    /\ g[1].start = NewParameter
    /\ g[1].req.url = UrlA

\* C18 reached: a Delete on a new client was sent with its parameters as
\* the query.
C18_WitnessDelete ==
    /\ Dispatched(1)
    /\ g[1].call.kind = "Delete"
    /\ g[1].start = NewParameter
    /\ rec.deleteUriFlag
    /\ g[1].req.url = "http://x/a?n=1"

\* C18 reached: a Get of UrlB, which carries "z=9", on a new client was sent
\* without a query.
C18_WitnessQueryDropped ==
    /\ Dispatched(1)
    /\ g[1].call.kind = "Get"
    /\ g[1].call.url = UrlB
    /\ g[1].start = NewParameter
    /\ g[1].req.url = "http://x/b"

\* An int64 above zero.
Positive(x) == ~Negative(x) /\ x # Zero64

\* x is the product a * b of the integers, not only its low 64 bits.
IsProduct(x, a, b) ==
    /\ ~Negative(x)
    /\ MulFrom(a, b, 1, 2 * Limbs, 0) = x \o Zero64

\* The WithTimeout options among those applied.
TimeoutsApplied == SelectSeq(Applied, LAMBDA o : o.k = "timeout")

\* C19: after WithTimeout(t) with t above zero the record's timeout is
\* above zero and is t * 1000000000 nanoseconds as integers, the 64-bit
\* multiplication not having wrapped, for t = 10 seconds (10000000000) too;
\* with no WithTimeout applied the timeout is the default of 3 seconds.
C19_TimeoutIsArgumentSeconds ==
    IF TimeoutsApplied = <<>>
    THEN rec.timeout = DefaultTimeOut
    ELSE LET t == TimeoutsApplied[Len(TimeoutsApplied)].d
         IN  Positive(t) => Positive(rec.timeout) /\ IsProduct(rec.timeout, t, Second)

====
